---------------------------- MODULE Spec2Model ----------------------------
(***************************************************************************)
(* goodvg (src/index.js): the markup-construction engine of class Graphic. *)
(*                                                                         *)
(* JavaScript strings are TLA+ strings, built with \o exactly as the       *)
(* template literals of the source build them.  A JavaScript value is a    *)
(* record [t, n, s, m]: t its kind, n a number's magnitude, s a string's   *)
(* text (for a number: its unit), m the entries of an object or array.     *)
(* An object is the sequence of its entries [k, v] in insertion order,     *)
(* which is the order Object.keys and the spread syntax follow.            *)
(***************************************************************************)
EXTENDS Integers, Sequences, FiniteSets, TLC

VARIABLES
    impl,        \* which class definition of src/index.js is loaded: 1 (lines 90-557) or 2 (lines 625-932)
    heap,        \* the attribute objects: "caller" (an object the caller holds), "own" (one the class made)
    attributes,  \* this.attributes: the heap cell it references
    container,   \* this.container
    contents,    \* this.contents: [head, body], two sequences of fragments
    template,    \* this.template
    height,      \* this.height
    width,       \* this.width
    viewBox,     \* this.viewBox
    stack,       \* the constructTag activations waiting in content() (line 223), outermost first
    ret,         \* the value the most recently completed call returned
    aborted,     \* history: a fault has unwound a constructTag activation since the last top-level empty()
    emptied,     \* history: empty() ran inside a callback since the last top-level empty()
    trace,       \* history, one record per entry of stack: what its callback appended so far
    script,      \* replay: the calls of the first run, in order
    pc,          \* replay: "free", "first", "again" or "done"
    first,       \* replay: the markup() result of the first run
    other        \* a second Graphic of the same program: its fields, and its own attributes object

vars == <<impl, heap, attributes, container, contents, template, height, width,
          viewBox, stack, ret, aborted, emptied, trace, script, pc, first,
          other>>

docVars == <<impl, heap, attributes, container, contents, template, height,
             width, viewBox, stack, ret, aborted, emptied, trace>>

-----------------------------------------------------------------------------
(* JavaScript values *)

Undefined == [t |-> "undefined", n |-> 0, s |-> "", m |-> <<>>]

Null == [t |-> "null", n |-> 0, s |-> "", m |-> <<>>]

This == [t |-> "this", n |-> 0, s |-> "", m |-> <<>>]

Str(x) == [t |-> "string", n |-> 0, s |-> x, m |-> <<>>]

Num(x) == [t |-> "number", n |-> x, s |-> "", m |-> <<>>]

\* x * (Math.sqrt(3) / 2): the only non-integers the class computes (triangle)
Sqrt3Half(x) == [t |-> "number", n |-> x, s |-> "sqrt3/2", m |-> <<>>]

Obj(entries) == [t |-> "object", n |-> 0, s |-> "", m |-> entries]

Arr(elems) ==
    [t |-> "array", n |-> 0, s |-> "",
     m |-> [i \in 1..Len(elems) |-> [k |-> ToString(i - 1), v |-> elems[i]]]]

Fn(name) == [t |-> "function", n |-> 0, s |-> name, m |-> <<>>]

\* a reference to a heap cell: the same object reached from two places
Ref(cell) == [t |-> "ref", n |-> 0, s |-> cell, m |-> <<>>]

\* the typeof operator
TypeOf(v) ==
    IF v.t \in {"null", "array", "ref", "this"} THEN "object" ELSE v.t

\* ToBoolean, as in !content and attributes.style && ...
Truthy(v) ==
    CASE v.t \in {"undefined", "null"} -> FALSE
      [] v.t = "string" -> v.s # ""
      [] v.t = "number" -> v.n # 0
      [] OTHER -> TRUE

\* Number::toString for the numbers the model draws
NumberToString(v) ==
    IF v.s = ""
    THEN ToString(v.n)
    ELSE LET a == IF v.n < 0 THEN 0 - v.n ELSE v.n
             sign == IF v.n < 0 THEN "-" ELSE ""
         IN  CASE a = 0 -> "0"
               [] a = 1 -> sign \o "0.8660254037844386"
               [] a = 2 -> sign \o "1.7320508075688772"
               [] OTHER -> sign \o ToString(a) \o "*0.8660254037844386"

RECURSIVE ToStr(_)
RECURSIVE Join(_, _)

\* Array.prototype.join over the entries of an array: null and undefined
\* elements give the empty string
Join(m, sep) ==
    IF m = <<>> THEN ""
    ELSE LET e == m[1].v
             s == IF e.t \in {"undefined", "null"} THEN "" ELSE ToStr(e)
         IN  IF Len(m) = 1 THEN s ELSE s \o sep \o Join(Tail(m), sep)

\* ToString, the conversion a template literal applies to ${value}
ToStr(v) ==
    CASE v.t = "string" -> v.s
      [] v.t = "number" -> NumberToString(v)
      [] v.t = "undefined" -> "undefined"
      [] v.t = "null" -> "null"
      [] v.t = "array" -> Join(v.m, ",")
      [] v.t = "function" -> v.s
      [] OTHER -> "[object Object]"

\* the keys of an object, in insertion order
Keys(m) == [i \in 1..Len(m) |-> m[i].k]

HasKey(m, k) == \E i \in 1..Len(m) : m[i].k = k

\* object[k]
Get(m, k) ==
    IF HasKey(m, k)
    THEN m[CHOOSE i \in 1..Len(m) : m[i].k = k].v
    ELSE Undefined

\* object[k] = v: an existing key keeps its place, a new key goes last
Set(m, k, v) ==
    IF HasKey(m, k)
    THEN [i \in 1..Len(m) |-> IF m[i].k = k THEN [k |-> k, v |-> v] ELSE m[i]]
    ELSE Append(m, [k |-> k, v |-> v])

RECURSIVE Spread(_, _)

\* { ...a, ...b } over entry sequences
Spread(a, b) ==
    IF b = <<>> THEN a ELSE Spread(Set(a, b[1].k, b[1].v), Tail(b))

-----------------------------------------------------------------------------
(* convertAttributes, src/index.js lines 43-68 *)

CLASSNAME == "goodvg"

RECURSIVE StyleString(_, _)
RECURSIVE StyleStringTight(_, _)

\* a variant of StyleString: `${attrib}:${property};`
StyleStringTight(style, result) ==
    IF style = <<>> THEN result
    ELSE StyleStringTight(Tail(style),
                          result \o style[1].k \o ":" \o ToStr(style[1].v) \o ";")

\* the reduce of lines 45-54 over Object.keys(attributes.style)
StyleString(style, result) ==
    IF style = <<>> THEN result
    ELSE StyleString(Tail(style),
                     result \o " " \o style[1].k \o ": " \o ToStr(style[1].v) \o ";")

\* lines 44-57: the object as convertAttributes leaves it; a style entry that
\* holds an object is overwritten, in place, by its flattened string
StyleWriteBack(m) ==
    LET style == Get(m, "style")
    IN  IF Truthy(style) /\ TypeOf(style) = "object"
        THEN Set(m, "style", Str(StyleString(style.m, "")))
        ELSE m

RECURSIVE AttributesString(_, _)

\* the reduce of lines 59-65 over Object.keys(attributes)
AttributesString(m, result) ==
    IF m = <<>> THEN result
    ELSE AttributesString(Tail(m),
                          result \o " " \o m[1].k \o "=\"" \o ToStr(m[1].v) \o "\"")

\* the string convertAttributes returns for an object with entries m
convertAttributes(m) == AttributesString(StyleWriteBack(m), "")

-----------------------------------------------------------------------------
(* class Graphic: the parts every method shares *)

E(k, v) == [k |-> k, v |-> v]

\* the entries of the object an argument denotes; a parameter declared
\* "attributes = {}" takes the empty object when the argument is undefined
Deref(v) ==
    CASE v.t = "ref" -> heap[v.s]
      [] v.t \in {"object", "array"} -> v.m
      [] OTHER -> <<>>

\* history: fragment frag, appended to contents[location], is recorded for
\* every activation whose callback is running
Logged(tr, location, frag) ==
    [i \in 1..Len(tr) |-> [tr[i] EXCEPT !.emitted[location] = Append(@, frag)]]

\* a variant of Push: unshift in place of push
PushFront(location, frag) ==
    contents' = [contents EXCEPT ![location] = <<frag>> \o @]

\* this.contents[location].push(frag)
Push(location, frag) ==
    contents' = [contents EXCEPT ![location] = Append(@, frag)]

\* an exception leaves every activation on the way to the outermost caller
Throw(name) ==
    /\ aborted' = (aborted \/ stack # <<>>)
    /\ emptied' = emptied
    /\ stack' = <<>>
    /\ trace' = <<>>
    /\ ret' = [t |-> "throw", n |-> 0, s |-> name, m |-> <<>>]

\* constructTag, lines 208-229 (699-720), up to the call of content() when
\* content is a function.  returns is what the public method that made the
\* call returns once constructTag is through (constructTag itself: undefined)
constructTag(maybeAttributes, content, location, tag, returns) ==
    LET isContentObject == TypeOf(content) = "object"
        isContentFunction == TypeOf(content) = "function"
        attrs == IF isContentObject THEN content ELSE maybeAttributes
        strAttributes == convertAttributes(Deref(attrs))
        startTag == "<" \o tag \o " " \o strAttributes \o ">"
        endTag == "</" \o tag \o ">"
        selfClosingTag == "<" \o tag \o " " \o strAttributes \o " />"
    IN  IF attrs.t = "null"
        THEN \* convertAttributes(null): attributes.style of null, a TypeError
             /\ Throw("TypeError")
             /\ UNCHANGED <<contents, heap>>
        ELSE /\ heap' = IF attrs.t = "ref"
                        THEN [heap EXCEPT ![attrs.s] = StyleWriteBack(@)]
                        ELSE heap
             /\ UNCHANGED <<aborted, emptied>>
             /\ IF ~Truthy(content) \/ isContentObject
                THEN /\ Push(location, selfClosingTag)
                     /\ trace' = Logged(trace, location, selfClosingTag)
                     /\ stack' = stack
                     /\ ret' = returns
                ELSE IF isContentFunction
                THEN /\ Push(location, startTag)
                     /\ stack' = Append(stack, [location |-> location,
                                                endTag |-> endTag,
                                                returns |-> returns])
                     /\ trace' = Append(Logged(trace, location, startTag),
                                        [before |-> contents[location],
                                         at |-> Len(contents[location]) + 1,
                                         location |-> location,
                                         startTag |-> startTag,
                                         emitted |-> [head |-> <<>>, body |-> <<>>],
                                         cleared |-> FALSE])
                     /\ ret' = ret
                ELSE /\ Push(location, startTag \o ToStr(content) \o endTag)
                     /\ trace' = Logged(trace, location,
                                        startTag \o ToStr(content) \o endTag)
                     /\ stack' = stack
                     /\ ret' = returns

\* a variant of ContentReturns: line 225 left out
ContentReturnsNoEndTag ==
    /\ stack # <<>>
    /\ stack' = SubSeq(stack, 1, Len(stack) - 1)
    /\ trace' = SubSeq(trace, 1, Len(trace) - 1)
    /\ ret' = stack[Len(stack)].returns
    /\ UNCHANGED <<impl, heap, attributes, container, contents, template, height,
                   width, viewBox, aborted, emptied, other>>

\* a variant of ContentReturns: this.body(endTag) whatever the location
ContentReturnsToBody ==
    /\ stack # <<>>
    /\ LET top == stack[Len(stack)]
           rest == SubSeq(stack, 1, Len(stack) - 1)
       IN  /\ Push("body", top.endTag)
           /\ stack' = rest
           /\ trace' = Logged(SubSeq(trace, 1, Len(trace) - 1), "body", top.endTag)
           /\ ret' = top.returns
    /\ UNCHANGED <<impl, heap, attributes, container, template, height, width,
                   viewBox, aborted, emptied, other>>

\* content() returns (line 223): constructTag appends endTag (line 225) and
\* the method that called it returns
ContentReturns ==
    /\ stack # <<>>
    /\ LET top == stack[Len(stack)]
           rest == SubSeq(stack, 1, Len(stack) - 1)
       IN  /\ Push(top.location, top.endTag)
           /\ stack' = rest
           /\ trace' = Logged(SubSeq(trace, 1, Len(trace) - 1),
                              top.location, top.endTag)
           /\ ret' = top.returns
    /\ UNCHANGED <<impl, heap, attributes, container, template, height, width,
                   viewBox, aborted, emptied, other>>

\* a variant of ContentThrows: the closing fragment is appended on the way
\* out, as under try/finally
ContentThrowsClosing ==
    /\ stack # <<>>
    /\ Throw("Error")
    /\ Push(stack[Len(stack)].location, stack[Len(stack)].endTag)
    /\ UNCHANGED <<impl, heap, attributes, container, template,
                   height, width, viewBox, other>>

\* content() throws (line 223): line 225 is never reached
ContentThrows ==
    /\ stack # <<>>
    /\ Throw("Error")
    /\ UNCHANGED <<impl, heap, attributes, container, contents, template,
                   height, width, viewBox, other>>

\* the fields no content method assigns, and the other Graphic, which no
\* method of this one is given
config == <<impl, attributes, container, template, height, width, viewBox, other>>

-----------------------------------------------------------------------------
(* the content methods, lines 172-198 (681-697) *)

\* a variant of empty: only the body is cleared
emptyBodyOnly ==
    /\ contents' = [contents EXCEPT !.body = <<>>]
    /\ aborted' = FALSE
    /\ emptied' = (stack # <<>>)
    /\ trace' = [i \in 1..Len(trace) |->
                    [trace[i] EXCEPT !.cleared = TRUE,
                                     !.before = <<>>,
                                     !.emitted = [head |-> <<>>, body |-> <<>>]]]
    /\ ret' = This
    /\ UNCHANGED <<config, heap, stack>>

\* a variant of empty: the attributes are reset with the contents
emptyAttributesToo ==
    /\ contents' = [head |-> <<>>, body |-> <<>>]
    /\ attributes' = "own"
    /\ heap' = [heap EXCEPT !["own"] = <<>>]
    /\ aborted' = FALSE
    /\ emptied' = (stack # <<>>)
    /\ trace' = [i \in 1..Len(trace) |->
                    [trace[i] EXCEPT !.cleared = TRUE,
                                     !.before = <<>>,
                                     !.emitted = [head |-> <<>>, body |-> <<>>]]]
    /\ ret' = This
    /\ UNCHANGED <<impl, container, template, height, width, viewBox, stack,
                   other>>

empty ==
    /\ contents' = [head |-> <<>>, body |-> <<>>]
    /\ aborted' = FALSE
    /\ emptied' = (stack # <<>>)
    /\ trace' = [i \in 1..Len(trace) |->
                    [trace[i] EXCEPT !.cleared = TRUE,
                                     !.before = <<>>,
                                     !.emitted = [head |-> <<>>, body |-> <<>>]]]
    /\ ret' = This
    /\ UNCHANGED <<config, heap, stack>>

\* a variant of head: the head is assigned, not appended to
headAssigned(str) ==
    /\ contents' = [contents EXCEPT !.head = <<str>>]
    /\ trace' = Logged(trace, "head", str)
    /\ ret' = This
    /\ UNCHANGED <<config, heap, stack, aborted, emptied>>

head(str) ==
    /\ Push("head", str)
    /\ trace' = Logged(trace, "head", str)
    /\ ret' = This
    /\ UNCHANGED <<config, heap, stack, aborted, emptied>>

body(str) ==
    /\ Push("body", str)
    /\ trace' = Logged(trace, "body", str)
    /\ ret' = This
    /\ UNCHANGED <<config, heap, stack, aborted, emptied>>

-----------------------------------------------------------------------------
(* constructTemplate and markup, lines 235-274 (722-757) *)

RECURSIVE JoinStrings(_, _)

\* Array.prototype.join over an array of strings
JoinStrings(a, sep) ==
    IF a = <<>> THEN ""
    ELSE IF Len(a) = 1 THEN a[1]
    ELSE a[1] \o sep \o JoinStrings(Tail(a), sep)

\* a variant of constructTemplate: the body is written before the head
constructTemplateBodyFirst ==
    LET strAttributes == convertAttributes(heap[attributes])
    IN  CASE template = "html" ->
               "\n  <html class=\"" \o CLASSNAME \o "\" " \o strAttributes
               \o ">\n    <body>\n      " \o JoinStrings(contents.body, "\n")
               \o "\n    </body>\n    <head>\n      "
               \o JoinStrings(contents.head, "\n")
               \o "\n    </head>\n  </html>"
          [] template = "svg" ->
               "\n  <svg\n    xmlns=\"http://www.w3.org/2000/svg\"\n    height=\""
               \o NumberToString(height) \o "\" width=\"" \o NumberToString(width)
               \o "\"\n    viewBox=\"" \o viewBox \o "\"\n    class=\""
               \o CLASSNAME \o "\"\n    " \o strAttributes \o "\n  >\n    "
               \o JoinStrings(contents.body, "\n") \o "\n    "
               \o JoinStrings(contents.head, "\n") \o "\n  </svg>"
          [] OTHER ->
               JoinStrings(contents.body, ",") \o JoinStrings(contents.head, ",")

\* the string lines 238-263 build from the fields of a Graphic, attrs being
\* the entries of its attributes object
TemplateText(tpl, attrs, cts, h, w, vb) ==
    LET strAttributes == convertAttributes(attrs)
    IN  CASE tpl = "html" ->
               "\n  <html class=\"" \o CLASSNAME \o "\" " \o strAttributes
               \o ">\n    <head>\n      " \o JoinStrings(cts.head, "\n")
               \o "\n    </head>\n    <body>\n      "
               \o JoinStrings(cts.body, "\n")
               \o "\n    </body>\n  </html>"
          [] tpl = "svg" ->
               "\n  <svg\n    xmlns=\"http://www.w3.org/2000/svg\"\n    height=\""
               \o NumberToString(h) \o "\" width=\"" \o NumberToString(w)
               \o "\"\n    viewBox=\"" \o vb \o "\"\n    class=\""
               \o CLASSNAME \o "\"\n    " \o strAttributes \o "\n  >\n    "
               \o JoinStrings(cts.head, "\n") \o "\n    "
               \o JoinStrings(cts.body, "\n") \o "\n  </svg>"
          [] OTHER ->
               \* head + body: each array is converted by Array.prototype.toString,
               \* which joins with ","
               JoinStrings(cts.head, ",") \o JoinStrings(cts.body, ",")

\* the string constructTemplate returns
constructTemplate ==
    TemplateText(template, heap[attributes], contents, height, width, viewBox)

markup ==
    /\ ret' = Str(constructTemplate)
    /\ heap' = IF template \in {"html", "svg"}
               THEN [heap EXCEPT ![attributes] = StyleWriteBack(@)]
               ELSE heap
    /\ UNCHANGED <<config, contents, stack, aborted, emptied, trace>>

\* setAttributes, lines 281-285 (759-763): a new object every time
setAttributes(attrs) ==
    /\ heap' = [heap EXCEPT !["own"] = Spread(heap[attributes], Deref(attrs))]
    /\ attributes' = "own"
    /\ ret' = This
    /\ UNCHANGED <<impl, container, contents, template, height, width, viewBox,
                   stack, aborted, emptied, trace, other>>

-----------------------------------------------------------------------------
(* the shape primitives, lines 299-474 (769-871) *)

\* the last statement of a method of the first class definition that ends
\* "return this" while the second definition's method ends without a return
ThisUnlessSecond == IF impl = 1 THEN This ELSE Undefined

\* a variant of circle: { cx: x, cy: y, r: radius, ...attributes }
circleGeometryFirst(x, y, radius, attrs) ==
    /\ constructTag(Obj(Spread(<<E("cx", x), E("cy", y), E("r", radius)>>, Deref(attrs))),
                    Undefined, "body", "circle", This)
    /\ UNCHANGED config

circle(x, y, radius, attrs) ==
    /\ constructTag(Obj(Spread(Deref(attrs), <<E("cx", x), E("cy", y), E("r", radius)>>)),
                    Undefined, "body", "circle", This)
    /\ UNCHANGED config

\* line 325 returns this; the method at lines 779-785 has no return
ellipse(x, y, w, h, attrs) ==
    /\ constructTag(Obj(Spread(Deref(attrs),
                               <<E("cx", x), E("cy", y), E("rx", w), E("ry", h)>>)),
                    Undefined, "body", "ellipse", ThisUnlessSecond)
    /\ UNCHANGED config

rect(x, y, w, h, attrs) ==
    /\ constructTag(Obj(Spread(Deref(attrs),
                               <<E("x", x), E("y", y), E("width", w), E("height", h)>>)),
                    Undefined, "body", "rect", This)
    /\ UNCHANGED config

\* this.rect(x, y, size, size, attributes); return this
square(x, y, size, attrs) == rect(x, y, size, size, attrs)

path(d, attrs) ==
    /\ constructTag(Obj(Spread(Deref(attrs), <<E("d", d)>>)),
                    Undefined, "body", "path", This)
    /\ UNCHANGED config

line(x1, y1, x2, y2, attrs) ==
    /\ constructTag(Obj(Spread(Deref(attrs),
                               <<E("x1", x1), E("x2", x2), E("y1", y1), E("y2", y2)>>)),
                    Undefined, "body", "line", This)
    /\ UNCHANGED config

\* a variant of polyline: an array of points is joined with spaces first
polylineSpaced(points, attrs) ==
    /\ constructTag(Obj(Spread(Deref(attrs),
                               <<E("points", IF points.t = "array"
                                             THEN Str(Join(points.m, " "))
                                             ELSE points)>>)),
                    Undefined, "body", "polyline", This)
    /\ UNCHANGED config

polyline(points, attrs) ==
    /\ constructTag(Obj(Spread(Deref(attrs), <<E("points", points)>>)),
                    Undefined, "body", "polyline", This)
    /\ UNCHANGED config

\* line 456 returns this; the method at lines 856-862 has no return
polygon(points, attrs) ==
    /\ constructTag(Obj(Spread(Deref(attrs), <<E("points", points)>>)),
                    Undefined, "body", "polygon", ThisUnlessSecond)
    /\ UNCHANGED config

\* lines 369-384; size is even, so that size / 2 is an integer
triangle(x, y, size, attrs) ==
    LET halfHeight == Sqrt3Half(size.n \div 2)
        minusHalfHeight == Sqrt3Half(0 - (size.n \div 2))
        points == Arr(<<Arr(<<Num(0), minusHalfHeight>>),
                        Arr(<<Num(0 - (size.n \div 2)), halfHeight>>),
                        Arr(<<Num(size.n \div 2), halfHeight>>),
                        Arr(<<Num(0), minusHalfHeight>>)>>)
        given == Get(Deref(attrs), "transform")
        transform == (IF Truthy(given) THEN ToStr(given) ELSE "")
                     \o " translate(" \o ToStr(x) \o " " \o ToStr(y) \o ")"
    IN  polyline(points, Obj(Spread(Deref(attrs), <<E("transform", Str(transform))>>)))

\* line 473 returns this; the method at lines 864-871 has no return
\* a variant of group: a content object is merged into the attributes
groupMerging(content, attrs) ==
    /\ constructTag(Obj(Deref(attrs)),
                    IF TypeOf(content) = "object" /\ content.t # "null"
                    THEN Obj(Spread(Deref(attrs), Deref(content)))
                    ELSE content,
                    "body", IF template = "svg" THEN "g" ELSE "div", ThisUnlessSecond)
    /\ UNCHANGED config

group(content, attrs) ==
    /\ constructTag(Obj(Deref(attrs)), content, "body",
                    IF template = "svg" THEN "g" ELSE "div", ThisUnlessSecond)
    /\ UNCHANGED config

-----------------------------------------------------------------------------
(* the constructor, lines 101-118 (626-643), and the callers' arguments *)

\* the object the caller holds and may pass to the constructor and to calls
CallerAttributes ==
    <<E("fill", Str("white")),
      E("style", Obj(<<E("a", Str("1")), E("b", Str("2"))>>))>>

\* the options objects the model constructs a Graphic from
OptionsSet ==
    {[attributes |-> Undefined, container |-> Undefined, height |-> Num(100),
      width |-> Num(100), template |-> Undefined, viewBox |-> Undefined],
     [attributes |-> Ref("caller"), container |-> Str("#root"), height |-> Undefined,
      width |-> Undefined, template |-> Str("html"), viewBox |-> Undefined],
     [attributes |-> Undefined, container |-> Undefined, height |-> Undefined,
      width |-> Undefined, template |-> Str("xml"), viewBox |-> Undefined]}

\* a || b
Or(a, b) == IF Truthy(a) THEN a ELSE b

constructor(options) ==
    /\ heap = [caller |-> CallerAttributes, own |-> <<>>]
    /\ attributes = IF Truthy(options.attributes) THEN options.attributes.s ELSE "own"
    /\ container = Or(options.container, Str("body")).s
    /\ contents = [head |-> <<>>, body |-> <<>>]
    /\ template = Or(options.template, Str("svg")).s
    /\ height = Or(options.height, Num(1200))
    /\ width = Or(options.width, Num(1200))
    /\ viewBox = Or(options.viewBox,
                    Str("0 0 " \o ToStr(Or(options.width, Num(1200))) \o " "
                        \o ToStr(Or(options.height, Num(1200))))).s


Call(op, args) == [op |-> op, args |-> args]

Red == Obj(<<E("fill", Str("red"))>>)

PointPairs == Arr(<<Arr(<<Num(1), Num(2)>>), Arr(<<Num(3), Num(4)>>)>>)

PointString == Str("1,2 3,4")

TheCircle == Call("circle", <<Num(50), Num(50), Num(10), Red>>)

\* calls of the shape primitives that take no content
ShapeCalls ==
    {TheCircle,
     Call("ellipse", <<Num(1), Num(2), Num(3), Num(4), Undefined>>),
     Call("rect", <<Num(1), Num(2), Num(3), Num(4), Undefined>>),
     Call("square", <<Num(1), Num(2), Num(3), Undefined>>),
     Call("line", <<Num(0), Num(0), Num(9), Num(9), Ref("caller")>>),
     Call("path", <<Str("M 10 10 L 20 20"), Undefined>>),
     Call("polyline", <<PointPairs, Undefined>>),
     Call("polyline", <<PointString, Undefined>>),
     Call("polygon", <<PointPairs, Undefined>>),
     Call("polygon", <<PointString, Red>>),
     Call("triangle", <<Num(5), Num(6), Num(2), Undefined>>)}

Callback == Fn("content")

GroupCalls ==
    {Call("group", <<c, Red>>) : c \in {Undefined, Str("hi"), Ref("caller"), Callback}}

ConstructTagCalls ==
    {Call("constructTag", <<Red, c, Str(l), Str("defs")>>) :
        c \in {Undefined, Str("hi"), Callback}, l \in {"head", "body"}}

AppendCalls == {Call("head", <<Str("<style></style>")>>), Call("body", <<Str("raw")>>)}

TheEmpty == Call("empty", <<>>)

TheMarkup == Call("markup", <<>>)

TheSetAttributes == Call("setAttributes", <<Obj(<<E("fill", Str("none"))>>)>>)

\* one call of a public method
Do(c) ==
    LET a == c.args
    IN  \/ c.op = "circle" /\ circle(a[1], a[2], a[3], a[4])
        \/ c.op = "ellipse" /\ ellipse(a[1], a[2], a[3], a[4], a[5])
        \/ c.op = "rect" /\ rect(a[1], a[2], a[3], a[4], a[5])
        \/ c.op = "square" /\ square(a[1], a[2], a[3], a[4])
        \/ c.op = "line" /\ line(a[1], a[2], a[3], a[4], a[5])
        \/ c.op = "path" /\ path(a[1], a[2])
        \/ c.op = "polyline" /\ polyline(a[1], a[2])
        \/ c.op = "polygon" /\ polygon(a[1], a[2])
        \/ c.op = "triangle" /\ triangle(a[1], a[2], a[3], a[4])
        \/ c.op = "group" /\ group(a[1], a[2])
        \/ c.op = "constructTag"
           /\ constructTag(a[1], a[2], a[3].s, a[4].s, Undefined)
           /\ UNCHANGED config
        \/ c.op = "head" /\ head(a[1].s)
        \/ c.op = "body" /\ body(a[1].s)
        \/ c.op = "empty" /\ empty
        \/ c.op = "markup" /\ markup
        \/ c.op = "setAttributes" /\ setAttributes(a[1])

\* the fragments in the document and the closing fragments still owed
Size == Len(contents.head) + Len(contents.body) + Len(stack)

\* the room a call needs: its fragment, or its opening and closing fragments
Need(c) ==
    IF c.op \in {"group", "constructTag"} /\ c.args[IF c.op = "group" THEN 1 ELSE 2] = Callback
    THEN 2 ELSE 1

replayVars == <<script, pc, first>>

\* what the constructor makes of options, as a record: attributes names the
\* object this.attributes refers to, the caller's or the Graphic's own
NewGraphic(options) ==
    [attributes |-> IF Truthy(options.attributes) THEN options.attributes.s ELSE "own",
     own |-> <<>>,
     container |-> Or(options.container, Str("body")).s,
     contents |-> [head |-> <<>>, body |-> <<>>],
     template |-> Or(options.template, Str("svg")).s,
     height |-> Or(options.height, Num(1200)),
     width |-> Or(options.width, Num(1200)),
     viewBox |-> Or(options.viewBox,
                    Str("0 0 " \o ToStr(Or(options.width, Num(1200))) \o " "
                        \o ToStr(Or(options.height, Num(1200))))).s]

NoOptions ==
    [attributes |-> Undefined, container |-> Undefined, height |-> Undefined,
     width |-> Undefined, template |-> Undefined, viewBox |-> Undefined]

Start ==
    /\ other = NewGraphic(NoOptions)
    /\ stack = <<>>
    /\ ret = Undefined
    /\ aborted = FALSE
    /\ emptied = FALSE
    /\ trace = <<>>
    /\ script = <<>>
    /\ first = ""

-----------------------------------------------------------------------------
(* Spec: the methods that build content, on every configuration *)

MaxLen == 2

Init ==
    /\ \E i \in {1, 2}, o \in OptionsSet : impl = i /\ constructor(o)
    /\ Start
    /\ pc = "free"

CallShape ==
    \E c \in ShapeCalls : Size + Need(c) <= MaxLen /\ Do(c) /\ UNCHANGED replayVars

CallGroup ==
    \E c \in GroupCalls : Size + Need(c) <= MaxLen /\ Do(c) /\ UNCHANGED replayVars

CallConstructTag ==
    \E c \in ConstructTagCalls :
        Size + Need(c) <= MaxLen /\ Do(c) /\ UNCHANGED replayVars

CallAppend ==
    \E c \in AppendCalls : Size + Need(c) <= MaxLen /\ Do(c) /\ UNCHANGED replayVars

CallEmpty == Do(TheEmpty) /\ UNCHANGED replayVars

Return == ContentReturns /\ UNCHANGED replayVars

Next ==
    \/ CallShape \/ CallGroup \/ CallConstructTag \/ CallAppend \/ CallEmpty
    \/ Return

Spec == Init /\ [][Next]_vars

-----------------------------------------------------------------------------
(* SpecAll: every method, on one configuration *)

InitAll ==
    /\ impl = 1
    /\ constructor(CHOOSE o \in OptionsSet : o.template = Str("html"))
    /\ Start
    /\ pc = "free"

CallMarkup == Do(TheMarkup) /\ UNCHANGED replayVars

CallSetAttributes == Do(TheSetAttributes) /\ UNCHANGED replayVars

NextAll == Next \/ CallMarkup \/ CallSetAttributes

SpecAll == InitAll /\ [][NextAll]_vars

-----------------------------------------------------------------------------
(* SpecMarkup: markup() over documents written with head, body and circle *)

MaxText == 3

TextCalls ==
    {Call("head", <<Str("<style></style>")>>), Call("head", <<Str("<defs />")>>),
     Call("body", <<Str("raw")>>), Call("body", <<Str("<b>more</b>")>>),
     TheCircle}

WriteText ==
    \E c \in TextCalls : Size + Need(c) <= MaxText /\ Do(c) /\ UNCHANGED replayVars

NextMarkup == WriteText \/ CallMarkup \/ CallSetAttributes \/ CallEmpty

SpecMarkup == Init /\ [][NextMarkup]_vars

-----------------------------------------------------------------------------
(* SpecNest: callbacks that call further methods, return, or throw *)

MaxNest == 5

InitNest ==
    /\ impl = 1
    /\ constructor(CHOOSE o \in OptionsSet : o.width = Num(100))
    /\ Start
    /\ pc = "free"

NestCalls ==
    {TheCircle,
     Call("rect", <<Num(1), Num(2), Num(3), Num(4), Undefined>>),
     Call("group", <<Callback, Undefined>>),
     Call("constructTag", <<Undefined, Callback, Str("head"), Str("defs")>>)}

Nest ==
    \E c \in NestCalls : Size + Need(c) <= MaxNest /\ Do(c) /\ UNCHANGED replayVars

Fault == ContentThrows /\ UNCHANGED replayVars

NextNest == Nest \/ CallEmpty \/ Return \/ Fault

SpecNest == InitNest /\ [][NextNest]_vars

-----------------------------------------------------------------------------
(* SpecContent: group and constructTag over every kind of content value *)

MaxContent == 2

InitContent ==
    /\ impl = 1
    /\ \E o \in OptionsSet : constructor(o)
    /\ Start
    /\ pc = "free"

TheMapping == Obj(<<E("id", Str("a"))>>)

\* absent, null, empty and non-empty string, zero and non-zero number, an
\* object literal, an object the caller keeps, a function
ContentValues ==
    {Undefined, Null, Str(""), Str("hi"), Num(0), Num(7), TheMapping,
     Ref("caller"), Callback}

ContentCalls ==
    {Call("group", <<c, Red>>) : c \in ContentValues}
    \cup {Call("constructTag", <<Red, c, Str(l), Str("defs")>>) :
             c \in ContentValues, l \in {"head", "body"}}

CallContent ==
    \E c \in ContentCalls : Size + Need(c) <= MaxContent /\ Do(c) /\ UNCHANGED replayVars

NextContent == CallContent \/ Return \/ Fault \/ CallEmpty

SpecContent == InitContent /\ [][NextContent]_vars

-----------------------------------------------------------------------------
(* SpecConvert: convertAttributes applied to objects of every shape *)

MaxAttrs == 2

AttributeKeys == {"fill", "r", "id", "style"}

\* the values an attribute may hold: strings, numbers, and for style a
\* string or an object of declarations
ValuesOf(k) ==
    CASE k = "fill" -> {Str("red"), Str("")}
      [] k = "r" -> {Num(10), Num(0)}
      [] k = "id" -> {Str("a")}
      [] k = "style" -> {Str("x: 1;"), Obj(<<>>),
                         Obj(<<E("a", Str("1")), E("b", Str("2"))>>),
                         Obj(<<E("b", Str("2")), E("a", Num(1))>>)}

AttributeEntries == UNION {{E(k, v) : v \in ValuesOf(k)} : k \in AttributeKeys}

\* the objects with at most MaxAttrs keys, in every insertion order
AttributeObjects ==
    UNION {{m \in [1..n -> AttributeEntries] :
               \A i, j \in 1..n : m[i].k = m[j].k => i = j} : n \in 0..MaxAttrs}

InitConvert ==
    /\ impl = 1
    /\ \E m \in AttributeObjects : heap = [caller |-> m, own |-> <<>>]
    /\ attributes = "own"
    /\ container = "body"
    /\ contents = [head |-> <<>>, body |-> <<>>]
    /\ template = "svg"
    /\ height = Num(1200)
    /\ width = Num(1200)
    /\ viewBox = "0 0 1200 1200"
    /\ Start
    /\ pc = "free"

\* convertAttributes(object): the string is returned and the object is left
\* as lines 44-57 leave it
CallConvert ==
    /\ ret' = Str(convertAttributes(heap["caller"]))
    /\ heap' = [heap EXCEPT !["caller"] = StyleWriteBack(@)]
    /\ UNCHANGED <<config, contents, stack, aborted, emptied, trace, replayVars>>

NextConvert == CallConvert

SpecConvert == InitConvert /\ [][NextConvert]_vars

-----------------------------------------------------------------------------
(* SpecTwo: two Graphics in one program, called in turn *)

MaxTwo == 2

\* the two are made from the same options object or from different ones
InitTwo ==
    /\ impl = 1
    /\ \E o1, o2 \in {o \in OptionsSet : o.template # Str("xml")} :
          constructor(o1) /\ other = NewGraphic(o2)
    /\ stack = <<>>
    /\ ret = Undefined
    /\ aborted = FALSE
    /\ emptied = FALSE
    /\ trace = <<>>
    /\ script = <<>>
    /\ first = ""
    /\ pc = "free"

TwoCalls ==
    {TheCircle,
     Call("group", <<Str("hi"), Red>>),
     Call("head", <<Str("<style></style>")>>),
     Call("body", <<Str("raw")>>)}

CallOne ==
    \E c \in TwoCalls : Size + Need(c) <= MaxTwo /\ Do(c) /\ UNCHANGED replayVars

\* the program turns to its other Graphic: the next calls are made on it
Swap ==
    /\ stack = <<>>
    /\ attributes' = other.attributes
    /\ container' = other.container
    /\ contents' = other.contents
    /\ template' = other.template
    /\ height' = other.height
    /\ width' = other.width
    /\ viewBox' = other.viewBox
    /\ heap' = [heap EXCEPT !["own"] = other.own]
    /\ other' = [attributes |-> attributes, own |-> heap["own"],
                 container |-> container, contents |-> contents,
                 template |-> template, height |-> height, width |-> width,
                 viewBox |-> viewBox]
    /\ ret' = Undefined
    /\ UNCHANGED <<impl, stack, aborted, emptied, trace, replayVars>>

NextTwo == CallOne \/ CallEmpty \/ CallMarkup \/ CallSetAttributes \/ Swap

SpecTwo == InitTwo /\ [][NextTwo]_vars

-----------------------------------------------------------------------------
(* SpecReplay: a call sequence, markup(), empty(), the same sequence again,  *)
(* markup()                                                                  *)

MaxReplay == 3

InitReplay ==
    /\ impl = 1
    /\ \E o \in OptionsSet : constructor(o)
    /\ Start
    /\ pc = "first"

ReplayCalls ==
    {TheCircle,
     Call("line", <<Num(0), Num(0), Num(9), Num(9), Ref("caller")>>),
     Call("group", <<Callback, Ref("caller")>>),
     Call("group", <<Ref("caller"), Undefined>>),
     Call("head", <<Str("<style></style>")>>),
     Call("body", <<Str("raw")>>)}

TheReturn == Call("return", <<>>)

\* the first run: a call is made and written down
Record ==
    /\ pc = "first"
    /\ \E c \in ReplayCalls :
          /\ Size + Need(c) <= MaxReplay
          /\ Do(c)
          /\ script' = Append(script, c)
    /\ UNCHANGED <<pc, first>>

RecordReturn ==
    /\ pc = "first"
    /\ ContentReturns
    /\ script' = Append(script, TheReturn)
    /\ UNCHANGED <<pc, first>>

FirstMarkup ==
    /\ pc = "first"
    /\ stack = <<>>
    /\ markup
    /\ first' = constructTemplate
    /\ pc' = "marked"
    /\ UNCHANGED script

Reset ==
    /\ pc = "marked"
    /\ empty
    /\ pc' = "again"
    /\ UNCHANGED <<script, first>>

\* the second run: the calls written down, in order
Replay ==
    /\ pc = "again"
    /\ script # <<>>
    /\ IF Head(script) = TheReturn THEN ContentReturns ELSE Do(Head(script))
    /\ script' = Tail(script)
    /\ UNCHANGED <<pc, first>>

SecondMarkup ==
    /\ pc = "again"
    /\ script = <<>>
    /\ markup
    /\ pc' = "done"
    /\ UNCHANGED <<script, first>>

NextReplay ==
    \/ Record \/ RecordReturn \/ FirstMarkup \/ Reset \/ Replay \/ SecondMarkup

SpecReplay == InitReplay /\ [][NextReplay]_vars

-----------------------------------------------------------------------------
(* reading fragments *)

StartsWith(s, p) == Len(s) >= Len(p) /\ SubSeq(s, 1, Len(p)) = p

EndsWith(s, p) == Len(s) >= Len(p) /\ SubSeq(s, Len(s) - Len(p) + 1, Len(s)) = p

\* the first place at or after i where p occurs in s; 0 when there is none
IndexFrom(s, p, i) ==
    LET places == {j \in i..(Len(s) - Len(p) + 1) : SubSeq(s, j, j + Len(p) - 1) = p}
    IN  IF places = {} THEN 0
        ELSE CHOOSE j \in places : \A k \in places : j <= k

Contains(s, p) == IndexFrom(s, p, 1) # 0

IsClosing(f) == StartsWith(f, "</")

\* <tag attrs> with nothing after it
IsOpening(f) ==
    /\ StartsWith(f, "<")
    /\ ~IsClosing(f)
    /\ EndsWith(f, ">")
    /\ ~EndsWith(f, "/>")
    /\ ~Contains(f, "</")

OpeningName(f) == SubSeq(f, 2, IndexFrom(f, " ", 1) - 1)

ClosingName(f) == SubSeq(f, 3, Len(f) - 1)

RECURSIVE Balanced(_, _, _)

\* from entry i on, with the tags in opens still open: every closing fragment
\* closes the innermost open tag, and nothing is left open at the end
Balanced(seq, i, opens) ==
    IF i > Len(seq) THEN opens = <<>>
    ELSE IF IsOpening(seq[i])
    THEN Balanced(seq, i + 1, Append(opens, OpeningName(seq[i])))
    ELSE IF IsClosing(seq[i])
    THEN /\ opens # <<>>
         /\ opens[Len(opens)] = ClosingName(seq[i])
         /\ Balanced(seq, i + 1, SubSeq(opens, 1, Len(opens) - 1))
    ELSE Balanced(seq, i + 1, opens)

WellFormed(seq) == Balanced(seq, 1, <<>>)

-----------------------------------------------------------------------------
(* the claims *)

\* C1, as amended: once the outermost call has returned, and provided no
\* callback faulted and empty() was not called from inside a callback, the
\* head and the body sequence are each well-formed.
C1_WellFormedUnlessEmptiedInside ==
    (stack = <<>> /\ ~aborted /\ ~emptied)
        => WellFormed(contents.head) /\ WellFormed(contents.body)

\* C1 as stated: well-formed after any sequence of shape primitives, group,
\* constructTag and empty, calls made inside callbacks included, once the
\* outermost call has returned and no callback faulted.
C1_WellFormedAfterAnyCalls ==
    (stack = <<>> /\ ~aborted)
        => WellFormed(contents.head) /\ WellFormed(contents.body)

\* C1's case: a group in a group with a shape inside, all returned
C1_Witness ==
    /\ stack = <<>> /\ ~aborted /\ ~emptied
    /\ Len(contents.body) = 5
    /\ IsOpening(contents.body[1]) /\ IsOpening(contents.body[2])
    /\ IsClosing(contents.body[4]) /\ IsClosing(contents.body[5])

IsGroup(t) == t.location = "body" /\ (StartsWith(t.startTag, "<g ") \/ StartsWith(t.startTag, "<div "))

\* while a group's callback runs: the body ends with the group's opening
\* fragment followed by what the calls inside produced, in call order
NestingOrder ==
    \A i \in 1..Len(trace) :
        (IsGroup(trace[i]) /\ ~trace[i].cleared)
            => SubSeq(contents.body, trace[i].at, Len(contents.body))
                 = <<trace[i].startTag>> \o trace[i].emitted.body

\* when a group's callback returns: the closing fragment goes after all of it
ClosingOrder ==
    (stack # <<>> /\ stack' = SubSeq(stack, 1, Len(stack) - 1) /\ ret'.t # "throw")
        => LET t == trace[Len(trace)]
           IN  (IsGroup(t) /\ ~t.cleared)
                   => contents'.body
                        = SubSeq(contents.body, 1, t.at - 1) \o <<t.startTag>>
                          \o t.emitted.body \o <<stack[Len(stack)].endTag>>

\* C2: the fragments produced by the calls made inside a group callback are
\* in the body in call order, after the group's opening fragment and before
\* its closing fragment, at every nesting depth.
C2_NestingOrder == []NestingOrder /\ [][ClosingOrder]_vars

\* C2's case: a group inside a group, the inner one with a shape inside
C2_Witness ==
    /\ Len(trace) = 2
    /\ IsGroup(trace[1]) /\ IsGroup(trace[2])
    /\ ~trace[1].cleared /\ ~trace[2].cleared
    /\ Len(trace[1].emitted.body) = 2
    /\ Len(trace[2].emitted.body) = 1


\* C3: after a call sequence S and markup() = m, empty() followed by S again
\* with the same argument values gives a markup() result identical to m.
C3_SameMarkupAfterReset == pc = "done" => ret = Str(first)

\* C3's case: both runs made; S held a group with a callback and a shape in
\* it, and the root attributes held a style mapping
C3_Witness ==
    /\ pc = "done"
    /\ attributes = "caller"
    /\ Len(contents.body) = 3
    /\ IsOpening(contents.body[1])

IsPrefix(a, b) == Len(a) <= Len(b) /\ SubSeq(b, 1, Len(a)) = a

C5_EmptyKeepsTheRest ==
    [][CallEmpty => (/\ contents' = [head |-> <<>>, body |-> <<>>]
                     /\ UNCHANGED <<heap, attributes, width, height, viewBox,
                                    template, container>>)]_vars

\* C5's case: empty() has run, inside a callback, on a document whose
\* attributes came from the caller and whose container was given
C5_Witness ==
    /\ emptied
    /\ contents = [head |-> <<>>, body |-> <<>>]
    /\ attributes = "caller"
    /\ container = "#root"


RECURSIVE Locate(_, _, _)

\* the strings of frags occur in s one after the other, from place i on,
\* without overlap and in the order of frags
Locate(s, frags, i) ==
    IF frags = <<>> THEN TRUE
    ELSE LET at == IndexFrom(s, frags[1], i)
         IN  at # 0 /\ Locate(s, Tail(frags), at + Len(frags[1]))

\* C6: in svg and html mode markup() holds the head entries in order, then
\* the body entries in order; in html mode the head entries are inside a
\* <head> element and the body entries inside a <body> element.
C6_HeadThenBody ==
    (ret.t = "string" /\ template \in {"svg", "html"})
        => IF template = "html"
           THEN Locate(ret.s,
                       <<"<html", "<head>">> \o contents.head
                       \o <<"</head>", "<body>">> \o contents.body
                       \o <<"</body>", "</html>">>, 1)
           ELSE Locate(ret.s,
                       <<"<svg">> \o contents.head \o contents.body \o <<"</svg>">>, 1)

\* C6's case: markup() in html mode over two head entries and a body entry
C6_Witness ==
    /\ ret.t = "string"
    /\ template = "html"
    /\ Len(contents.head) = 2 /\ contents.head[1] # contents.head[2]
    /\ Len(contents.body) = 1

\* C7: in a mode that is neither svg nor html, markup() is the head entries
\* followed by the body entries with nothing between entries.
C7_RawConcatenation ==
    (ret.t = "string" /\ template \notin {"svg", "html"})
        => ret.s = JoinStrings(contents.head, "") \o JoinStrings(contents.body, "")

\* new Graphic({width: 100, height: 100}).circle(50, 50, 10, {fill: "red"}).markup()
C8_Scenario ==
    /\ pc = "marked"
    /\ script = <<TheCircle>>
    /\ width = Num(100) /\ height = Num(100)

\* C8, as amended: the markup has an svg root with height="100" width="100"
\* and holds <circle  fill="red" cx="50" cy="50" r="10" />: the caller's
\* attributes first, then the geometric ones, two spaces after the tag name;
\* the head has no entries.
C8_CircleMarkup ==
    C8_Scenario
        => /\ StartsWith(ret.s, "\n  <svg")
           /\ Contains(ret.s, " height=\"100\" width=\"100\"")
           /\ Contains(ret.s, "<circle  fill=\"red\" cx=\"50\" cy=\"50\" r=\"10\" />")
           /\ contents.head = <<>>

\* C8 as stated: the markup holds <circle cx="50" cy="50" r="10" fill="red" />
C8_CircleMarkupAsStated ==
    C8_Scenario
        => /\ StartsWith(ret.s, "\n  <svg")
           /\ Contains(ret.s, " width=\"100\"") /\ Contains(ret.s, " height=\"100\"")
           /\ Contains(ret.s, "<circle cx=\"50\" cy=\"50\" r=\"10\" fill=\"red\" />")
           /\ contents.head = <<>>

C8_Witness == C8_Scenario /\ ret.t = "string"

Last(seq) == seq[Len(seq)]

\* a step that is the call c appends one fragment with points="text"
EmitsPoints(c, text) ==
    Do(c) => /\ Len(contents'.body) = Len(contents.body) + 1
             /\ StartsWith(Last(contents'.body), "<" \o c.op \o " ")
             /\ Contains(Last(contents'.body), " points=\"" \o text \o "\"")

PointPairsCalls == {c \in ShapeCalls : c.op \in {"polyline", "polygon"} /\ c.args[1] = PointPairs}

PointStringCalls == {c \in ShapeCalls : c.op \in {"polyline", "polygon"} /\ c.args[1] = PointString}

C10_PrimitivesReturnThis ==
    [][/\ \A c \in ShapeCalls \cup GroupCalls : (Do(c) /\ stack' = stack) => ret' = This
       /\ (ContentReturns /\ IsGroup(Last(trace))) => ret' = This]_vars


\* at a fault, for the activation of frame i: the sequence it appends to is
\* what it was before the call, then the opening fragment, then what was
\* appended to it while the callback ran; nothing is taken back and the
\* closing fragment is not there
LeftAsItWas(i) ==
    LET t == trace[i]
    IN  contents'[t.location] = t.before \o <<t.startTag>> \o t.emitted[t.location]

\* C11, as amended: when a callback faults, the fault reaches the caller of
\* the outermost call at once and nothing is rolled back: unless the callback
\* called empty(), the target sequence is its entries before the call, the
\* opening fragment and what the callback appended; no closing fragment is
\* appended by the fault, at any nesting depth.
C11_FaultLeavesPartialContent ==
    [][Fault => /\ ret'.t = "throw"
                /\ stack' = <<>>
                /\ contents' = contents
                /\ \A i \in 1..Len(trace) : ~trace[i].cleared => LeftAsItWas(i)]_vars

\* C11 as stated: the entries before the call and the opening fragment are
\* kept whatever the callback did before faulting
C11_FaultKeepsEarlierEntries ==
    [][Fault => /\ ret'.t = "throw"
                /\ stack' = <<>>
                /\ \A i \in 1..Len(trace) :
                      LET t == trace[i]
                      IN  /\ Len(contents'[t.location]) >= t.at
                          /\ contents'[t.location][t.at] = t.startTag]_vars

\* C11's case: a fault is raised inside a group inside a group, after the
\* inner callback appended a shape to a body that held one before
C11_Witness ==
    /\ ret.t = "throw"
    /\ aborted
    /\ Len(contents.body) = 4
    /\ ~IsOpening(contents.body[1])
    /\ IsOpening(contents.body[2]) /\ IsOpening(contents.body[3])
    /\ ~IsOpening(contents.body[4]) /\ ~IsClosing(contents.body[4])


\* the content argument of a group or constructTag call
ContentOf(c) == c.args[IF c.op = "group" THEN 1 ELSE 2]

\* the sequence a group or constructTag call appends to
LocationOf(c) == IF c.op = "group" THEN "body" ELSE c.args[3].s

\* the tag a group or constructTag call writes
TagOf(c) ==
    IF c.op = "group" THEN (IF template = "svg" THEN "g" ELSE "div") ELSE c.args[4].s

\* C12: constructTag and group raise no exception whatever the content
\* (absent, null, string, number, mapping, callback), and append an entry to
\* the named sequence; only a callback that throws makes the call fault.
C12_NoFaultForAnyContent ==
    [][\A c \in ContentCalls :
          Do(c) => /\ ret'.t # "throw"
                   /\ Len(contents'[LocationOf(c)])
                        = Len(contents[LocationOf(c)]) + 1]_vars

MappingCalls == {c \in ContentCalls : ContentOf(c) \in {TheMapping, Ref("caller")}}

\* the attributes text of the two mappings passed as content
MappingText(c) ==
    IF ContentOf(c) = TheMapping
    THEN " id=\"a\""
    ELSE " fill=\"white\" style=\" a: 1; b: 2;\""

\* C15: given a mapping as content, constructTag and group append exactly one
\* self-closing fragment whose attributes are the entries of that mapping;
\* the attributes argument ({fill: "red"}) adds nothing to it.
C15_ContentMappingIsTheAttributes ==
    [][\A c \in MappingCalls :
          Do(c) => /\ contents'[LocationOf(c)]
                        = Append(contents[LocationOf(c)],
                                 "<" \o TagOf(c) \o " " \o MappingText(c) \o " />")
                   /\ \A l \in {"head", "body"} \ {LocationOf(c)} :
                         contents'[l] = contents[l]
                   /\ ~Contains(Last(contents'[LocationOf(c)]), "red")]_vars

\* C15's case: group was given the literal mapping and constructTag the
\* caller's object, each along with {fill: "red"}
C15_Witness ==
    /\ template = "svg"
    /\ contents.body = <<"<g  id=\"a\" />">>
    /\ contents.head = <<"<defs  fill=\"white\" style=\" a: 1; b: 2;\" />">>


\* " key: value;" for each declaration of a style object, in order
DeclarationsText(style) ==
    JoinStrings([i \in 1..Len(style) |->
                    " " \o style[i].k \o ": " \o ToStr(style[i].v) \o ";"], "")

\* " key="value"" for each entry in order, a style object standing for its
\* declarations text
EntriesText(m) ==
    JoinStrings([i \in 1..Len(m) |->
                    " " \o m[i].k \o "=\""
                    \o (IF m[i].k = "style" /\ m[i].v.t = "object"
                        THEN DeclarationsText(m[i].v.m)
                        ELSE ToStr(m[i].v))
                    \o "\""], "")

TheStyleOnly == <<E("style", Obj(<<E("a", Str("1")), E("b", Str("2"))>>))>>

\* C13: convertAttributes returns  key="value" for each entry in insertion
\* order, each with one leading space; a style object is first replaced by
\* key: value; for each of its keys in order, each with one leading space:
\* {style: {a: "1", b: "2"}} flattens to " a: 1; b: 2;"; the empty object
\* gives the empty string.
C13_ConvertAttributesFormat ==
    [][CallConvert =>
          /\ ret' = Str(EntriesText(heap["caller"]))
          /\ heap["caller"] = <<>> => ret'.s = ""
          /\ heap["caller"] = TheStyleOnly
                => /\ ret'.s = " style=\" a: 1; b: 2;\""
                   /\ heap'["caller"] = <<E("style", Str(" a: 1; b: 2;"))>>]_vars

\* C13's case: an object with a plain entry and a style object was converted
C13_Witness ==
    /\ ret = Str(" fill=\"red\" style=\" a: 1; b: 2;\"")
    /\ heap["caller"] = <<E("fill", Str("red")), E("style", Str(" a: 1; b: 2;"))>>


OtherLocation(l) == IF l = "head" THEN "body" ELSE "head"

\* while the callback of frame i runs: the sequence named by its location
\* ends with the opening fragment followed by what was appended to that
\* sequence since, in call order
OpenedThenAppended(i) ==
    LET t == trace[i]
    IN  contents[t.location] = t.before \o <<t.startTag>> \o t.emitted[t.location]

\* when the innermost callback returns: the closing fragment goes to the same
\* sequence, after all of that
ThenClosed ==
    LET t == trace[Len(trace)]
    IN  contents'[t.location]
          = t.before \o <<t.startTag>> \o t.emitted[t.location]
            \o <<stack[Len(stack)].endTag>>

\* C16, as amended: for constructTag with a callback and either location,
\* what the calls inside the callback append to the sequence named by
\* location lies between the opening and the closing fragment, provided the
\* callback does not call empty(); the shape primitives and group append to
\* the body whatever the location of the enclosing tag.
C16_BetweenInTheSameSequence ==
    /\ [](\A i \in 1..Len(trace) : ~trace[i].cleared => OpenedThenAppended(i))
    /\ [][(Return /\ ~trace[Len(trace)].cleared) => ThenClosed]_vars

\* C16 as stated: everything the calls inside the callback appended is
\* between the two fragments, in the sequence named by location
C16_EverythingBetween ==
    [][(Return /\ ~trace[Len(trace)].cleared)
          => /\ ThenClosed
             /\ trace[Len(trace)].emitted[OtherLocation(trace[Len(trace)].location)]
                  = <<>>]_vars

\* C16's case: inside the callback of a tag in the head, a nested tag in the
\* head was opened and closed and a shape was drawn
C16_Witness ==
    /\ Len(trace) = 1
    /\ trace[1].location = "head"
    /\ ~trace[1].cleared
    /\ Len(trace[1].emitted.head) = 2
    /\ IsOpening(trace[1].emitted.head[1]) /\ IsClosing(trace[1].emitted.head[2])
    /\ Len(trace[1].emitted.body) = 1


\* the entries of the other Graphic's attributes object
OtherAttributes ==
    IF other.attributes = "own" THEN other.own ELSE heap[other.attributes]

\* what markup() of the other Graphic would return
OtherMarkup ==
    TemplateText(other.template, OtherAttributes, other.contents, other.height,
                 other.width, other.viewBox)

\* C14: a call on one Graphic leaves the head, the body, the attributes and
\* the markup() result of every other Graphic as they were, also when both
\* were made from the same options.
C14_NoSharedState ==
    [][\A c \in TwoCalls \cup {TheEmpty, TheMarkup, TheSetAttributes} :
          Do(c) => /\ other'.contents = other.contents
                   /\ OtherAttributes' = OtherAttributes
                   /\ OtherMarkup' = OtherMarkup]_vars


\* C17: markup() only reads: the head, the body, the attributes object (a
\* nested style object included), width, height, viewBox and template are
\* after the call what they were before it, however often it is called.
C17_MarkupOnlyReads ==
    [][CallMarkup => /\ contents' = contents
                     /\ attributes' = attributes
                     /\ heap'[attributes] = heap[attributes]
                     /\ UNCHANGED <<width, height, viewBox, template>>]_vars

=============================================================================
